---- MODULE Spec2Model ----
(***************************************************************************)
(* A model of the LLM question-and-answer front end: the line-mode shell   *)
(* (src/LLM_QA_CLI.py) and the graphical shell (src/app.py).               *)
(*                                                                         *)
(* A text (a Python str) is a sequence of characters; a character is a     *)
(* one-character string, except "U+2102", which stands for the single code *)
(* point U+2102 DOUBLE-STRUCK CAPITAL C (Unicode category Lu, str.isupper  *)
(* is True, and the Unicode database gives it no lower-case mapping), and  *)
(* "U+0060", the single code point GRAVE ACCENT of string.punctuation.     *)
(***************************************************************************)
EXTENDS Integers, Sequences, FiniteSets, TLC

VARIABLES
    shell,      \* which program runs: "cli" (LLM_QA_CLI.py), "gui" (app.py), "none"
    environ,    \* the process environment: variable name -> text
    use_mock,   \* main's use_mock / st.session_state.use_mock
    history,    \* st.session_state.history, newest first
    completed,  \* observer: turns completed since the last clear, oldest first
    pc,         \* the process: "running", "exited", "crashed", "interrupted"
    last,       \* observer: what the last handler run did
    text,       \* pure-function harness: the current text
    prev,       \* pure-function harness: the text before the last application
    napplied,   \* pure-function harness: normalizer applications so far
    mock_out    \* pure-function harness: the mock responders' results

vars == <<shell, environ, use_mock, history, completed, pc, last,
          text, prev, napplied, mock_out>>

-----------------------------------------------------------------------------
(* Bounds of the model *)

\* longest enumerated input text of the pure-function harness
MaxLen == 3
\* turns between two clears in the two-shell specification
MaxTurns == 1
\* turns between two clears in the history specification
MaxHistTurns == 6

-----------------------------------------------------------------------------
(* Program constants *)

\* app.py: if len(st.session_state.history) > 5
HistoryCap == 5
\* LLM_QA_CLI.py: question[:50]
EchoLen == 50

-----------------------------------------------------------------------------
(* Python's str operations, as the source uses them *)

ascii_uppercase == <<"A", "B", "C", "D", "E", "F", "G", "H", "I", "J", "K", "L", "M", "N", "O", "P", "Q", "R", "S", "T", "U", "V", "W", "X", "Y", "Z">>
ascii_lowercase == <<"a", "b", "c", "d", "e", "f", "g", "h", "i", "j", "k", "l", "m", "n", "o", "p", "q", "r", "s", "t", "u", "v", "w", "x", "y", "z">>

\* characters str.isupper() holds of: A-Z, and the letter without a lower case
UpperChars == {ascii_uppercase[i] : i \in 1..26} \cup {"U+2102"}

\* string.punctuation
string_punctuation == {"!", "\"", "#", "$", "%", "&", "'", "(", ")", "*", "+", ",", "-", ".", "/", ":", ";", "<", "=", ">", "?", "@", "[", "\\", "]", "^", "_", "U+0060", "{", "|", "}", "~"}

\* the characters str.split() and str.strip() treat as whitespace
whitespace == {" ", "\t", "\n"}

\* one character of str.lower()
lower_char(c) ==
    IF \E i \in 1..26 : ascii_uppercase[i] = c
    THEN ascii_lowercase[CHOOSE i \in 1..26 : ascii_uppercase[i] = c]
    ELSE c

\* s.lower()
str_lower(s) == [i \in 1..Len(s) |-> lower_char(s[i])]

\* s.translate(table), the table deleting the characters of deleted
str_translate(s, deleted) == SelectSeq(s, LAMBDA c : c \notin deleted)

\* length of the leading run of non-whitespace characters of s
RECURSIVE token_len(_)
token_len(s) ==
    IF s = <<>> \/ Head(s) \in whitespace THEN 0 ELSE 1 + token_len(Tail(s))

\* s.split()
RECURSIVE str_split(_)
str_split(s) ==
    IF s = <<>> THEN <<>>
    ELSE IF Head(s) \in whitespace THEN str_split(Tail(s))
    ELSE LET n == token_len(s)
         IN  <<SubSeq(s, 1, n)>> \o str_split(SubSeq(s, n + 1, Len(s)))

\* sep.join(tokens)
RECURSIVE str_join(_, _)
str_join(sep, tokens) ==
    IF tokens = <<>> THEN <<>>
    ELSE IF Len(tokens) = 1 THEN tokens[1]
    ELSE tokens[1] \o sep \o str_join(sep, Tail(tokens))

RECURSIVE str_lstrip(_)
str_lstrip(s) ==
    IF s # <<>> /\ Head(s) \in whitespace THEN str_lstrip(Tail(s)) ELSE s

RECURSIVE str_rstrip(_)
str_rstrip(s) ==
    IF s # <<>> /\ s[Len(s)] \in whitespace
    THEN str_rstrip(SubSeq(s, 1, Len(s) - 1)) ELSE s

\* s.strip()
str_strip(s) == str_rstrip(str_lstrip(s))

\* needle in hay
str_contains(needle, hay) ==
    \E i \in 0..(Len(hay) - Len(needle)) : SubSeq(hay, i + 1, i + Len(needle)) = needle

\* s[:n]
str_prefix(s, n) == SubSeq(s, 1, IF Len(s) < n THEN Len(s) ELSE n)

-----------------------------------------------------------------------------
(* Prompt templates *)

SYSTEM_PROMPT == <<"Y", "o", "u", " ", "a", "r", "e", " ", "a", " ", "h", "e", "l", "p", "f", "u", "l", " ", "a", "s", "s", "i", "s", "t", "a", "n", "t", ".", " ", "P", "r", "o", "v", "i", "d", "e", " ", "c", "o", "n", "c", "i", "s", "e", " ", "a", "n", "s", "w", "e", "r", "s", " ", "a", "n", "d", " ", "c", "i", "t", "e", " ", "s", "o", "u", "r", "c", "e", "s", " ", "w", "h", "e", "n", " ", "p", "o", "s", "s", "i", "b", "l", "e", ".">>

\* USER_PROMPT_ENHANCED up to, and from, its {processed_question} field
USER_PROMPT_ENHANCED_HEAD == <<"P", "l", "e", "a", "s", "e", " ", "a", "n", "s", "w", "e", "r", " ", "t", "h", "e", " ", "f", "o", "l", "l", "o", "w", "i", "n", "g", " ", "q", "u", "e", "s", "t", "i", "o", "n", " ", "c", "o", "n", "c", "i", "s", "e", "l", "y", ":", "\n", "\n", "Q", "u", "e", "s", "t", "i", "o", "n", ":", " ">>
USER_PROMPT_ENHANCED_TAIL == <<"\n", "\n", "P", "r", "o", "v", "i", "d", "e", " ", "a", " ", "c", "l", "e", "a", "r", ",", " ", "f", "a", "c", "t", "u", "a", "l", " ", "a", "n", "s", "w", "e", "r", ".", " ", "I", "f", " ", "a", "p", "p", "l", "i", "c", "a", "b", "l", "e", ",", " ", "c", "i", "t", "e", " ", "r", "e", "l", "i", "a", "b", "l", "e", " ", "s", "o", "u", "r", "c", "e", "s", ".">>

-----------------------------------------------------------------------------
(* The normalizer *)

\* a plausible slip: the punctuation is removed, the tokens are not rejoined
preprocess_question_no_split(question) ==
    str_translate(str_lower(question), string_punctuation)

\* LLM_QA_CLI.py preprocess_question
preprocess_question(question) ==
    LET question_lower    == str_lower(question)
        question_no_punct == str_translate(question_lower, string_punctuation)
        tokens            == str_split(question_no_punct)
    IN  str_join(<<" ">>, tokens)

\* app.py preprocess_question
app_preprocess_question(question) ==
    LET question_lower    == str_lower(question)
        question_no_punct == str_translate(question_lower, string_punctuation)
        tokens            == str_split(question_no_punct)
    IN  str_join(<<" ">>, tokens)

-----------------------------------------------------------------------------
(* The prompt builder *)

\* LLM_QA_CLI.py build_prompt
build_prompt(processed_question, use_enhanced) ==
    LET user_content ==
            IF use_enhanced
            THEN USER_PROMPT_ENHANCED_HEAD \o processed_question \o USER_PROMPT_ENHANCED_TAIL
            ELSE processed_question
    IN  << [role |-> "system", content |-> SYSTEM_PROMPT],
           [role |-> "user",   content |-> user_content] >>

\* app.py build_prompt
app_build_prompt(processed_question, use_enhanced) ==
    LET user_content ==
            IF use_enhanced
            THEN USER_PROMPT_ENHANCED_HEAD \o processed_question \o USER_PROMPT_ENHANCED_TAIL
            ELSE processed_question
    IN  << [role |-> "system", content |-> SYSTEM_PROMPT],
           [role |-> "user",   content |-> user_content] >>

-----------------------------------------------------------------------------
(* Answers.  An answer string is kept as the literal of the source (its    *)
(* f-string, the fields written {}), the exception's type name where the   *)
(* f-string embeds it, and the embedded text.                              *)

Answer(fmt, etype, detail) == [fmt |-> fmt, etype |-> etype, detail |-> detail]

NoAnswer == Answer("", "", <<>>)

GeographyAnswer ==
    Answer("Mock Response: The capital varies by country. For example, the capital of France is Paris.", "", <<>>)
ProgrammingAnswer ==
    Answer("Mock Response: Python is a high-level programming language known for readability and versatility.", "", <<>>)
WeatherAnswer ==
    Answer("Mock Response: I cannot access real-time weather data. Please check a weather service.", "", <<>>)

kw_capital == <<"c", "a", "p", "i", "t", "a", "l">>
kw_city == <<"c", "i", "t", "y">>
kw_python == <<"p", "y", "t", "h", "o", "n">>
kw_code == <<"c", "o", "d", "e">>
kw_weather == <<"w", "e", "a", "t", "h", "e", "r">>
kw_temperature == <<"t", "e", "m", "p", "e", "r", "a", "t", "u", "r", "e">>

\* a plausible slip: the programming rule is tested before the geography rule
mock_llm_response_python_first(question) ==
    LET question_lower == str_lower(question)
    IN  IF str_contains(kw_python, question_lower) \/ str_contains(kw_code, question_lower)
        THEN ProgrammingAnswer
        ELSE IF str_contains(kw_capital, question_lower) \/ str_contains(kw_city, question_lower)
        THEN GeographyAnswer
        ELSE IF str_contains(kw_weather, question_lower) \/ str_contains(kw_temperature, question_lower)
        THEN WeatherAnswer
        ELSE Answer("Mock Response: This is a simulated answer to your question about '{}...'",
                    "", str_prefix(question, EchoLen))

\* LLM_QA_CLI.py mock_llm_response
mock_llm_response(question) ==
    LET question_lower == str_lower(question)
    IN  IF str_contains(kw_capital, question_lower) \/ str_contains(kw_city, question_lower)
        THEN GeographyAnswer
        ELSE IF str_contains(kw_python, question_lower) \/ str_contains(kw_code, question_lower)
        THEN ProgrammingAnswer
        ELSE IF str_contains(kw_weather, question_lower) \/ str_contains(kw_temperature, question_lower)
        THEN WeatherAnswer
        ELSE Answer("Mock Response: This is a simulated answer to your question about '{}...'",
                    "", str_prefix(question, EchoLen))

\* app.py mock_llm_response
app_mock_llm_response(question) ==
    LET question_lower == str_lower(question)
    IN  IF str_contains(kw_capital, question_lower) \/ str_contains(kw_city, question_lower)
        THEN GeographyAnswer
        ELSE IF str_contains(kw_python, question_lower) \/ str_contains(kw_code, question_lower)
        THEN ProgrammingAnswer
        ELSE IF str_contains(kw_weather, question_lower) \/ str_contains(kw_temperature, question_lower)
        THEN WeatherAnswer
        ELSE Answer("Mock Response: This is a simulated answer to your question.", "", <<>>)

-----------------------------------------------------------------------------
(* The process environment *)

\* os.getenv(name, default)
getenv(env, name, default) == IF name \in DOMAIN env THEN env[name] ELSE default

\* not os.getenv(name): the variable is unset (None) or set to the empty string
getenv_falsy(env, name) == name \notin DOMAIN env \/ env[name] = <<>>

kw_true == <<"t", "r", "u", "e">>
kw_false == <<"f", "a", "l", "s", "e">>

\* os.getenv("USE_MOCK", "false").lower() == "true"
env_use_mock(env) == str_lower(getenv(env, "USE_MOCK", kw_false)) = kw_true

-----------------------------------------------------------------------------
(* The remote answer client *)

kw_timeout == <<"t", "i", "m", "e", "o", "u", "t">>
kw_rate_limit == <<"r", "a", "t", "e", "_", "l", "i", "m", "i", "t">>
kw_authentication == <<"a", "u", "t", "h", "e", "n", "t", "i", "c", "a", "t", "i", "o", "n">>

\* what client.chat.completions.create does: it returns a completion with
\* this content, or raises an exception of type etype whose str() is desc
RemoteOk(content) == [ok |-> TRUE, content |-> content, etype |-> "", desc |-> <<>>]
RemoteFails(etype, desc) == [ok |-> FALSE, content |-> <<>>, etype |-> etype, desc |-> desc]
NoRemote == [ok |-> FALSE, content |-> <<>>, etype |-> "", desc |-> <<>>]

\* what a call of call_llm_api does: it returns an answer or raises exc, after
\* so many requests sent to the remote service and mock responder calls
Returns(answer, network, mock) ==
    [kind |-> "return", answer |-> answer, exc |-> "", network |-> network, mock |-> mock]
Raises(exc, network, mock) ==
    [kind |-> "raise", answer |-> NoAnswer, exc |-> exc, network |-> network, mock |-> mock]

\* a plausible slip: the rate-limit test comes before the timeout test
cli_error_message_rate_first(etype, desc) ==
    IF str_contains(kw_rate_limit, str_lower(desc))
    THEN Answer("Error: Rate limit exceeded. Please wait a moment and try again.", "", <<>>)
    ELSE IF str_contains(kw_timeout, str_lower(desc))
    THEN Answer("Error: Request timed out. Please try again.", "", <<>>)
    ELSE IF str_contains(kw_authentication, str_lower(desc))
    THEN Answer("Error: Invalid API key. Please check your OPENAI_API_KEY.", "", <<>>)
    ELSE Answer("Error ({}): {}", etype, desc)

\* LLM_QA_CLI.py call_llm_api, the except branch
cli_error_message(etype, desc) ==
    IF str_contains(kw_timeout, str_lower(desc))
    THEN Answer("Error: Request timed out. Please try again.", "", <<>>)
    ELSE IF str_contains(kw_rate_limit, str_lower(desc))
    THEN Answer("Error: Rate limit exceeded. Please wait a moment and try again.", "", <<>>)
    ELSE IF str_contains(kw_authentication, str_lower(desc))
    THEN Answer("Error: Invalid API key. Please check your OPENAI_API_KEY.", "", <<>>)
    ELSE Answer("Error ({}): {}", etype, desc)

\* app.py call_llm_api, the except branch (<U+26A0 U+FE0F> is the warning sign)
app_error_message(etype, desc) ==
    IF str_contains(kw_timeout, str_lower(desc))
    THEN Answer("<U+26A0 U+FE0F> Error: Request timed out. Please try again.", "", <<>>)
    ELSE IF str_contains(kw_rate_limit, str_lower(desc))
    THEN Answer("<U+26A0 U+FE0F> Error: Rate limit exceeded. Please wait and try again.", "", <<>>)
    ELSE IF str_contains(kw_authentication, str_lower(desc))
    THEN Answer("<U+26A0 U+FE0F> Error: Invalid API key.", "", <<>>)
    ELSE Answer("<U+26A0 U+FE0F> Error: {}", "", desc)

\* a plausible slip: a failed request is sent once more before it is reported
cli_call_llm_api_retry(messages, mock, env, remote) ==
    IF mock
    THEN Returns(mock_llm_response(messages[Len(messages)].content), 0, 1)
    ELSE IF getenv_falsy(env, "OPENAI_API_KEY")
    THEN Raises("ValueError", 0, 0)
    ELSE IF remote.ok
    THEN Returns(Answer("{}", "", str_strip(remote.content)), 1, 0)
    ELSE Returns(cli_error_message(remote.etype, remote.desc), 2, 0)

\* LLM_QA_CLI.py call_llm_api
cli_call_llm_api(messages, mock, env, remote) ==
    IF mock
    THEN Returns(mock_llm_response(messages[Len(messages)].content), 0, 1)
    ELSE IF getenv_falsy(env, "OPENAI_API_KEY")
    THEN Raises("ValueError", 0, 0)
    ELSE IF remote.ok
    THEN Returns(Answer("{}", "", str_strip(remote.content)), 1, 0)
    ELSE Returns(cli_error_message(remote.etype, remote.desc), 1, 0)

\* app.py call_llm_api
app_call_llm_api(messages, mock, env, remote) ==
    IF mock
    THEN Returns(app_mock_llm_response(messages[Len(messages)].content), 0, 1)
    ELSE IF getenv_falsy(env, "OPENAI_API_KEY")
    THEN Returns(Answer("<U+26A0 U+FE0F> Error: OPENAI_API_KEY not found. Please set it in Streamlit secrets or environment variables.", "", <<>>), 0, 0)
    ELSE IF remote.ok
    THEN Returns(Answer("{}", "", str_strip(remote.content)), 1, 0)
    ELSE Returns(app_error_message(remote.etype, remote.desc), 1, 0)

-----------------------------------------------------------------------------
(* What a handler run did, as an observer sees it *)

NoCalls ==
    [preprocess_question |-> 0, build_prompt |-> 0, call_llm_api |-> 0,
     mock_llm_response |-> 0, network |-> 0]

\* the calls of one pass through the pipeline whose call_llm_api did r
PipelineCalls(r) ==
    [preprocess_question |-> 1, build_prompt |-> 1, call_llm_api |-> 1,
     mock_llm_response |-> r.mock, network |-> r.network]

Ran(op, input, outcome, processed, content, mock, remote, r, calls) ==
    [op |-> op, input |-> input, outcome |-> outcome, processed |-> processed,
     content |-> content, use_mock |-> mock, remote |-> remote,
     answer |-> r.answer, exc |-> r.exc, calls |-> calls]

\* a handler run that did not enter the pipeline
RanNoPipeline(op, input, outcome) ==
    Ran(op, input, outcome, <<>>, <<>>, FALSE, NoRemote, Returns(NoAnswer, 0, 0), NoCalls)

\* a handler run that went through the pipeline
RanPipeline(op, input, processed, messages, mock, remote, r) ==
    Ran(op, input, IF r.kind = "return" THEN "answered" ELSE "raised",
        processed, messages[Len(messages)].content, mock,
        IF r.network > 0 THEN remote ELSE NoRemote, r, PipelineCalls(r))

-----------------------------------------------------------------------------
(* The line-mode shell *)

kw_quit == <<"q", "u", "i", "t">>

\* a plausible slip: the exit test compares without lower-casing
cli_is_quit_exact(question) == question = kw_quit

\* LLM_QA_CLI.py main: if question.lower() == 'quit'
cli_is_quit(question) == str_lower(question) = kw_quit

\* LLM_QA_CLI.py main: one pass of the while loop, reading line from input()
main(line, remote) ==
    /\ shell = "cli"
    /\ pc = "running"
    /\ LET question == str_strip(line)
       IN  IF cli_is_quit(question)
           THEN /\ pc' = "exited"
                /\ last' = RanNoPipeline("line", line, "quit")
           ELSE IF question = <<>>
           THEN /\ pc' = pc
                /\ last' = RanNoPipeline("line", line, "validation")
           ELSE LET processed_question == preprocess_question(question)
                    messages == build_prompt(processed_question, FALSE)
                    r == cli_call_llm_api(messages, use_mock, environ, remote)
                IN  /\ pc' = IF r.kind = "raise" THEN "crashed" ELSE pc
                    /\ last' = RanPipeline("line", line, processed_question, messages,
                                           use_mock, remote, r)
    /\ UNCHANGED <<shell, environ, use_mock, history, completed, text, prev,
                   napplied, mock_out>>

\* LLM_QA_CLI.py: except KeyboardInterrupt around main()
KeyboardInterrupt ==
    /\ shell = "cli"
    /\ pc = "running"
    /\ pc' = "interrupted"
    /\ last' = RanNoPipeline("interrupt", <<>>, "none")
    /\ UNCHANGED <<shell, environ, use_mock, history, completed, text, prev,
                   napplied, mock_out>>

-----------------------------------------------------------------------------
(* The graphical shell *)

Turn(question, processed, answer, timestamp) ==
    [question |-> question, processed |-> processed, answer |-> answer,
     timestamp |-> timestamp]

\* a plausible slip: nothing is evicted
add_to_history_no_pop(h, turn) == <<turn>> \o h

\* a plausible slip: pop(0) for pop(), evicting at the head
add_to_history_pop_head(h, turn) ==
    LET inserted == <<turn>> \o h
    IN  IF Len(inserted) > HistoryCap THEN Tail(inserted) ELSE inserted

\* app.py: history.insert(0, turn); if len(history) > 5: history.pop()
add_to_history(h, turn) ==
    LET inserted == <<turn>> \o h
    IN  IF Len(inserted) > HistoryCap
        THEN SubSeq(inserted, 1, Len(inserted) - 1)
        ELSE inserted

\* a plausible slip: the input is tested without strip()
app_has_question_no_strip(user_question) == user_question # <<>>

\* app.py: if user_question.strip()
app_has_question(user_question) == str_strip(user_question) # <<>>

\* app.py: a script run with the Get Answer button pressed, the text area
\* holding user_question and the clock showing now
submit(user_question, remote, now, cap) ==
    /\ shell = "gui"
    /\ Len(completed) < cap
    /\ IF app_has_question(user_question)
       THEN LET processed == app_preprocess_question(user_question)
                messages == app_build_prompt(processed, FALSE)
                r == app_call_llm_api(messages, use_mock, environ, remote)
                turn == Turn(user_question, processed, r.answer, now)
            IN  /\ history' = add_to_history(history, turn)
                /\ completed' = Append(completed, turn)
                /\ last' = RanPipeline("submit", user_question, processed, messages,
                                       use_mock, remote, r)
       ELSE /\ UNCHANGED <<history, completed>>
            /\ last' = RanNoPipeline("submit", user_question, "validation")
    /\ UNCHANGED <<shell, environ, use_mock, pc, text, prev, napplied, mock_out>>

\* app.py: a script run after the mock-mode checkbox was flipped
toggle_mock ==
    /\ shell = "gui"
    /\ use_mock' = ~use_mock
    /\ last' = RanNoPipeline("toggle", <<>>, "none")
    /\ UNCHANGED <<shell, environ, history, completed, pc, text, prev,
                   napplied, mock_out>>

\* app.py: a script run with the Clear History button pressed
clear_history ==
    /\ shell = "gui"
    /\ history' = <<>>
    /\ completed' = <<>>
    /\ last' = RanNoPipeline("clear", <<>>, "none")
    /\ UNCHANGED <<shell, environ, use_mock, pc, text, prev, napplied, mock_out>>

-----------------------------------------------------------------------------
(* The pure-function harness: the normalizers and the mock responders      *)
(* applied to a text drawn at the start                                    *)

normalize_cli ==
    /\ shell = "none"
    /\ napplied < 2
    /\ prev' = text
    /\ text' = preprocess_question(text)
    /\ napplied' = napplied + 1
    /\ UNCHANGED <<shell, environ, use_mock, history, completed, pc, last, mock_out>>

normalize_app ==
    /\ shell = "none"
    /\ napplied < 2
    /\ prev' = text
    /\ text' = app_preprocess_question(text)
    /\ napplied' = napplied + 1
    /\ UNCHANGED <<shell, environ, use_mock, history, completed, pc, last, mock_out>>

NoMockOut == [applied |-> FALSE, question |-> <<>>, cli |-> NoAnswer, app |-> NoAnswer]

respond_mock ==
    /\ shell = "none"
    /\ ~mock_out.applied \/ mock_out.question # text
    /\ mock_out' = [applied |-> TRUE, question |-> text,
                    cli |-> mock_llm_response(text),
                    app |-> app_mock_llm_response(text)]
    /\ UNCHANGED <<shell, environ, use_mock, history, completed, pc, last,
                   text, prev, napplied>>

-----------------------------------------------------------------------------
(* Inputs *)

\* the environments a session starts in
KeyEnvirons ==
    { <<>>, [OPENAI_API_KEY |-> <<>>], [OPENAI_API_KEY |-> <<"s", "k", "-", "t", "e", "s", "t">>] }
MockEnvirons == { <<>>, [USE_MOCK |-> <<"T", "R", "U", "E">>], [USE_MOCK |-> <<"n", "o">>] }
Environs == { k @@ m : k \in KeyEnvirons, m \in MockEnvirons }

\* lines typed at the line-mode prompt
CliLines ==
    { <<"q", "u", "i", "t">>, <<"Q", "U", "I", "T">>, <<" ", "Q", "u", "i", "t", "\n">>, <<"q", "u", "i", "t", "s">>, <<>>, <<" ", " ", "\t">>, <<"?", "?", "?">>,
      <<"C", "i", "t", "y", "?">>, <<"H", "i", "!">> }

\* contents of the text area
GuiQuestions == { <<>>, <<" ", " ", "\t">>, <<"?", "?", "?">>, <<"C", "i", "t", "y", "?">>, <<" ", "H", "i", "!">> }

\* what the remote service does with a request
Remotes ==
    { RemoteOk(<<"P", "a", "r", "i", "s">>), RemoteOk(<<" ", "P", "a", "r", "i", "s", ".", "\n">>),
      RemoteFails("APITimeoutError", <<"R", "e", "q", "u", "e", "s", "t", " ", "t", "i", "m", "e", "d", " ", "o", "u", "t", ".">>),
      RemoteFails("APIConnectionError", <<"C", "o", "n", "n", "e", "c", "t", "i", "o", "n", " ", "T", "i", "m", "e", "o", "u", "t">>),
      RemoteFails("RateLimitError", <<"r", "a", "t", "e", "_", "l", "i", "m", "i", "t", "_", "e", "x", "c", "e", "e", "d", "e", "d">>),
      RemoteFails("RateLimitError", <<"T", "I", "M", "E", "O", "U", "T", " ", "a", "f", "t", "e", "r", " ", "r", "a", "t", "e", "_", "l", "i", "m", "i", "t">>),
      RemoteFails("AuthenticationError", <<"A", "u", "t", "h", "e", "n", "t", "i", "c", "a", "t", "i", "o", "n", " ", "f", "a", "i", "l", "e", "d", " ", "(", "r", "a", "t", "e", "_", "l", "i", "m", "i", "t", ")">>),
      RemoteFails("AuthenticationError", <<"I", "n", "c", "o", "r", "r", "e", "c", "t", " ", "a", "u", "t", "h", "e", "n", "t", "i", "c", "a", "t", "i", "o", "n">>),
      RemoteFails("RuntimeError", <<"b", "o", "o", "m">>) }

\* values of time.strftime("%H:%M:%S")
Timestamps == { "09:00:00", "23:59:59" }

\* the history specification: one question, empty inputs, a model answer
\* and an error
HistEnvirons == { <<>>, [OPENAI_API_KEY |-> <<"s", "k", "-", "t", "e", "s", "t">>] }
HistQuestions == { <<>>, <<" ", "\n">>, <<"H", "i", "!">> }
HistRemotes == { RemoteOk(<<"P", "a", "r", "i", "s">>), RemoteFails("RuntimeError", <<"b", "o", "o", "m">>) }
HistTimestamps == { "09:00:00" }

\* the pure-function harness: every text up to MaxLen over a small alphabet,
\* and texts with the responder's keywords
PureAlphabet == { "a", "Q", " ", "\t", "?", "U+2102" }
ShortTexts == UNION { [1..n -> PureAlphabet] : n \in 0..MaxLen }
LongQuestion == <<"h", "e", "l", "l", "o", " ", "w", "o", "r", "l", "d", ",", " ", "t", "h", "i", "s", " ", "i", "s", " ", "a", " ", "l", "o", "n", "g", " ", "q", "u", "e", "s", "t", "i", "o", "n", ",", " ", "w", "e", "l", "l", " ", "o", "v", "e", "r", " ", "f", "i", "f", "t", "y", " ", "c", "h", "a", "r", "a", "c", "t", "e", "r", "s">>
KeywordTexts ==
    { <<"C", "a", "p", "i", "t", "a", "l", " ", "o", "f", " ", "P", "y", "t", "h", "o", "n">>, <<"m", "y", " ", "C", "I", "T", "Y", " ", "c", "o", "d", "e">>, <<"P", "y", "t", "h", "o", "n", " ", "w", "e", "a", "t", "h", "e", "r">>, <<"c", "o", "d", "e">>,
      <<"W", "e", "a", "t", "h", "e", "r", "?">>, <<"t", "e", "m", "p", "e", "r", "a", "t", "u", "r", "e", " ", "c", "i", "t", "y">>, <<"T", "E", "M", "P", "E", "R", "A", "T", "U", "R", "E">>, <<"h", "e", "l", "l", "o", " ", "w", "o", "r", "l", "d">>,
      <<"W", "h", "a", "t", " ", "I", "S", " ", "t", "h", "e", " ", "C", "a", "p", "i", "t", "a", "l", ",", " ", "o", "f", " ", "F", "r", "a", "n", "c", "e", "?">>, <<"W", "h", "a", "t", "'", "s", " ", "t", "h", "e", " ", "W", "e", "a", "t", "h", "e", "r", " ", "T", "o", "d", "a", "y", "?">>,
      LongQuestion }
PureTexts == ShortTexts \cup KeywordTexts

-----------------------------------------------------------------------------
(* Specifications *)

NoRun == RanNoPipeline("none", <<>>, "none")

\* either shell, started in some environment
Init ==
    /\ shell \in {"cli", "gui"}
    /\ environ \in Environs
    /\ use_mock = env_use_mock(environ)
    /\ history = <<>>
    /\ completed = <<>>
    /\ pc = "running"
    /\ last = NoRun
    /\ text = <<>>
    /\ prev = <<>>
    /\ napplied = 0
    /\ mock_out = NoMockOut

Next ==
    \/ \E line \in CliLines, remote \in Remotes : main(line, remote)
    \/ KeyboardInterrupt
    \/ \E user_question \in GuiQuestions, remote \in Remotes, now \in Timestamps :
          submit(user_question, remote, now, MaxTurns)
    \/ toggle_mock
    \/ clear_history

Spec == Init /\ [][Next]_vars

\* the graphical shell over long sessions
InitHist ==
    /\ shell = "gui"
    /\ environ \in HistEnvirons
    /\ use_mock = env_use_mock(environ)
    /\ history = <<>>
    /\ completed = <<>>
    /\ pc = "running"
    /\ last = NoRun
    /\ text = <<>>
    /\ prev = <<>>
    /\ napplied = 0
    /\ mock_out = NoMockOut

NextHist ==
    \/ \E user_question \in HistQuestions, remote \in HistRemotes, now \in HistTimestamps :
          submit(user_question, remote, now, MaxHistTurns)
    \/ toggle_mock
    \/ clear_history

SpecHist == InitHist /\ [][NextHist]_vars

\* the pure functions
InitPure ==
    /\ shell = "none"
    /\ environ = <<>>
    /\ use_mock = FALSE
    /\ history = <<>>
    /\ completed = <<>>
    /\ pc = "running"
    /\ last = NoRun
    /\ text \in PureTexts
    /\ prev = <<>>
    /\ napplied = 0
    /\ mock_out = NoMockOut

NextPure ==
    \/ normalize_cli
    \/ normalize_app
    \/ respond_mock

SpecPure == InitPure /\ [][NextPure]_vars

-----------------------------------------------------------------------------
(* Properties *)

\* the last handler run called call_llm_api
AnswerStepRan == last.calls.call_llm_api = 1

\* the last handler run sent a request and the remote service failed it
RemoteFailed == last.calls.network >= 1 /\ ~last.remote.ok

\* C1: in both shells, with mock mode off and OPENAI_API_KEY unset or
\* empty, call_llm_api returns an error string to its caller, sends no
\* request, and does not raise.
C1_MissingCredentialReturnsString ==
    (AnswerStepRan /\ ~last.use_mock /\ getenv_falsy(environ, "OPENAI_API_KEY"))
        => /\ last.outcome = "answered"
           /\ last.exc = ""
           /\ last.answer # NoAnswer
           /\ last.calls.network = 0

\* C2: no failure is fatal: every turn that entered the pipeline has
\* yielded an answer string with the process back at its prompt, and the
\* line-mode loop has ended only on the quit input.
C2_NoFailureIsFatal ==
    /\ pc # "crashed"
    /\ last.calls.preprocess_question = 1
          => last.answer # NoAnswer /\ pc = "running"
    /\ pc = "exited" => last.outcome = "quit"

Min(a, b) == IF a < b THEN a ELSE b

\* C3: in the graphical shell the history never holds more than 5 turns,
\* whatever the interleaving of submits (empty or not), clears and toggles.
C3_HistoryBounded == Len(history) <= HistoryCap

C3_Witness ==
    /\ Len(history) = HistoryCap
    /\ Len(completed) > HistoryCap
    /\ last.op = "submit" /\ last.outcome = "answered"

\* the n most recent of the turns c, newest first
MostRecent(c, n) == [i \in 1..Min(Len(c), n) |-> c[Len(c) + 1 - i]]

\* C4: the history is exactly the min(n, 5) most recent turns completed
\* since the last clear, newest first, whether a turn's answer is a model
\* answer or an error string; a submit with empty input and a mock-mode
\* toggle leave it as it was.
C4_HistoryIsMostRecent ==
    /\ [](history = MostRecent(completed, HistoryCap))
    /\ [][(last'.outcome = "validation" \/ last'.op = "toggle")
              => history' = history]_vars

C4_Witness ==
    /\ Len(completed) > HistoryCap
    /\ history[1] = completed[Len(completed)]
    /\ completed[1] # history[HistoryCap]
    /\ \E i \in 1..Len(history) : history[i].answer.fmt = "{}"
    /\ \E i \in 1..Len(history) : history[i].answer.fmt = "<U+26A0 U+FE0F> Error: {}"

TimeoutMessage(sh) ==
    IF sh = "cli"
    THEN Answer("Error: Request timed out. Please try again.", "", <<>>)
    ELSE Answer("<U+26A0 U+FE0F> Error: Request timed out. Please try again.", "", <<>>)
RateLimitMessage(sh) ==
    IF sh = "cli"
    THEN Answer("Error: Rate limit exceeded. Please wait a moment and try again.", "", <<>>)
    ELSE Answer("<U+26A0 U+FE0F> Error: Rate limit exceeded. Please wait and try again.", "", <<>>)
InvalidKeyMessage(sh) ==
    IF sh = "cli"
    THEN Answer("Error: Invalid API key. Please check your OPENAI_API_KEY.", "", <<>>)
    ELSE Answer("<U+26A0 U+FE0F> Error: Invalid API key.", "", <<>>)

\* the three keyword tests on the lower-cased description of the failure
SaysTimeout == str_contains(kw_timeout, str_lower(last.remote.desc))
SaysRateLimit == str_contains(kw_rate_limit, str_lower(last.remote.desc))
SaysAuthentication == str_contains(kw_authentication, str_lower(last.remote.desc))

\* the first three rules of the classification, the same in both shells
KeywordRules ==
    /\ SaysTimeout => last.answer = TimeoutMessage(shell)
    /\ (SaysRateLimit /\ ~SaysTimeout) => last.answer = RateLimitMessage(shell)
    /\ (SaysAuthentication /\ ~SaysTimeout /\ ~SaysRateLimit)
          => last.answer = InvalidKeyMessage(shell)

\* C5 as stated: a remote failure is classified timeout, rate_limit,
\* authentication in that order, and any other failure yields, in both
\* shells, a generic error string embedding the type name and description.
C5_GenericEmbedsTypeName ==
    RemoteFailed =>
        /\ KeywordRules
        /\ (~SaysTimeout /\ ~SaysRateLimit /\ ~SaysAuthentication)
              => /\ last.answer.etype = last.remote.etype
                 /\ last.answer.detail = last.remote.desc

\* C5 amended: the same order of tests; the generic error string embeds
\* the type name and the description in the line-mode shell and the
\* description alone in the graphical shell.
C5_ErrorClassification ==
    RemoteFailed =>
        /\ KeywordRules
        /\ (~SaysTimeout /\ ~SaysRateLimit /\ ~SaysAuthentication)
              => last.answer =
                    IF shell = "cli"
                    THEN Answer("Error ({}): {}", last.remote.etype, last.remote.desc)
                    ELSE Answer("<U+26A0 U+FE0F> Error: {}", "", last.remote.desc)

C5_Witness ==
    /\ shell = "gui"
    /\ RemoteFailed
    /\ ~SaysTimeout /\ ~SaysRateLimit /\ ~SaysAuthentication
    /\ last.remote.etype # ""
    /\ last.answer.etype = ""
    /\ last.answer.detail = last.remote.desc

\* C6: in the line-mode shell "quit" in any letter case, trimmed, ends the
\* loop without running the pipeline; empty or whitespace-only input
\* re-prompts without calling the normalizer, the prompt builder, the
\* remote client or the mock responder; every other input runs the
\* pipeline exactly once.
C6_QuitAndEmptyInput ==
    last.op = "line" =>
        LET question == str_strip(last.input)
        IN  IF str_lower(question) = kw_quit
            THEN pc = "exited" /\ last.outcome = "quit" /\ last.calls = NoCalls
            ELSE IF question = <<>>
            THEN pc = "running" /\ last.outcome = "validation" /\ last.calls = NoCalls
            ELSE /\ pc # "exited"
                 /\ last.outcome \in {"answered", "raised"}
                 /\ last.calls.preprocess_question = 1
                 /\ last.calls.build_prompt = 1
                 /\ last.calls.call_llm_api = 1

C6_Witness ==
    /\ last.op = "line"
    /\ last.input # kw_quit
    /\ str_lower(str_strip(last.input)) = kw_quit
    /\ pc = "exited"

CliErrorFormats ==
    { "Error: Request timed out. Please try again.",
      "Error: Rate limit exceeded. Please wait a moment and try again.",
      "Error: Invalid API key. Please check your OPENAI_API_KEY.",
      "Error ({}): {}" }
AppErrorFormats ==
    { "<U+26A0 U+FE0F> Error: Request timed out. Please try again.",
      "<U+26A0 U+FE0F> Error: Rate limit exceeded. Please wait and try again.",
      "<U+26A0 U+FE0F> Error: Invalid API key.",
      "<U+26A0 U+FE0F> Error: {}" }

AsksGeography ==
    \/ str_contains(kw_capital, str_lower(mock_out.question))
    \/ str_contains(kw_city, str_lower(mock_out.question))
AsksProgramming ==
    \/ str_contains(kw_python, str_lower(mock_out.question))
    \/ str_contains(kw_code, str_lower(mock_out.question))
AsksWeather ==
    \/ str_contains(kw_weather, str_lower(mock_out.question))
    \/ str_contains(kw_temperature, str_lower(mock_out.question))

\* the first Min(Len(q), 50) characters of q
Echoed(q) == [i \in 1..Min(Len(q), EchoLen) |-> q[i]]

\* the keyword rules, first match wins, the same in both shells
MockKeywordRules ==
    /\ AsksGeography
          => mock_out.cli = GeographyAnswer /\ mock_out.app = GeographyAnswer
    /\ (AsksProgramming /\ ~AsksGeography)
          => mock_out.cli = ProgrammingAnswer /\ mock_out.app = ProgrammingAnswer
    /\ (AsksWeather /\ ~AsksGeography /\ ~AsksProgramming)
          => mock_out.cli = WeatherAnswer /\ mock_out.app = WeatherAnswer

\* C8 as stated: first match wins in the order geography, programming,
\* weather; otherwise a generic answer echoing the (possibly truncated)
\* question; and the result is the same in both shells.
C8_MockSameInBothShells ==
    mock_out.applied =>
        /\ MockKeywordRules
        /\ (~AsksGeography /\ ~AsksProgramming /\ ~AsksWeather)
              => mock_out.cli.detail = Echoed(mock_out.question)
        /\ mock_out.app = mock_out.cli

\* C8 amended: the keyword rules are the same in both shells; without a
\* keyword the line-mode responder echoes the first 50 characters of the
\* question, and the graphical one returns a fixed sentence with no echo.
C8_MockPrecedence ==
    mock_out.applied =>
        /\ MockKeywordRules
        /\ (~AsksGeography /\ ~AsksProgramming /\ ~AsksWeather)
              => /\ mock_out.cli =
                       Answer("Mock Response: This is a simulated answer to your question about '{}...'",
                              "", Echoed(mock_out.question))
                 /\ mock_out.app =
                       Answer("Mock Response: This is a simulated answer to your question.",
                              "", <<>>)

C8_Witness ==
    /\ mock_out.applied
    /\ str_contains(kw_capital, str_lower(mock_out.question))
    /\ str_contains(kw_python, str_lower(mock_out.question))
    /\ mock_out.cli = GeographyAnswer
    /\ mock_out.app = GeographyAnswer

\* what C9 says of a normalized text but for its letters: no standard
\* punctuation, no whitespace at either end, single spaces the only
\* whitespace inside; empty for an input of whitespace and punctuation
\* only; and unchanged by a second application
NormalFormButCase ==
    /\ \A i \in 1..Len(text) : text[i] \notin string_punctuation
    /\ text # <<>> => text[1] \notin whitespace /\ text[Len(text)] \notin whitespace
    /\ \A i \in 1..Len(text) : text[i] \in whitespace => text[i] = " "
    /\ \A i \in 1..(Len(text) - 1) : ~(text[i] = " " /\ text[i + 1] = " ")
    /\ (\A i \in 1..Len(prev) : prev[i] \in whitespace \cup string_punctuation)
          => text = <<>>
    /\ napplied >= 2 => text = prev

\* C9 as stated: preprocess_question is total and idempotent, and its
\* result holds no upper-case letter, no standard punctuation, no leading
\* or trailing whitespace and no run of spaces; empty, whitespace-only or
\* punctuation-only input yields the empty string.
C9_NoUpperCaseLetter ==
    napplied >= 1 =>
        /\ NormalFormButCase
        /\ \A i \in 1..Len(text) : text[i] \notin UpperChars

\* C9 amended: as stated, but the result holds no character that
\* lower-casing changes (so no A-Z); an upper-case letter without a
\* lower-case mapping, such as U+2102, is kept.
C9_NormalizeIdempotent ==
    napplied >= 1 =>
        /\ NormalFormButCase
        /\ \A i \in 1..Len(text) : lower_char(text[i]) = text[i]

C9_Witness ==
    /\ napplied = 2
    /\ text = prev
    /\ \E i \in 1..Len(text) : text[i] = "U+2102"
    /\ \E i \in 1..Len(text) : text[i] = " "

\* every turn of the history came from an input that was not blank
NoBlankTurn == \A i \in 1..Len(history) : str_strip(history[i].question) # <<>>

\* C10 as stated: when the answer step runs, the normalized question in
\* the user message is not empty: an input whose normalized form is empty
\* is caught by the emptiness check and creates no turn.
C10_NormalizedQuestionNonEmpty ==
    /\ AnswerStepRan => last.content # <<>>
    /\ \A i \in 1..Len(history) : history[i].processed # <<>>

\* C10 amended: when the answer step runs, the trimmed raw input is not
\* empty: empty and whitespace-only input is caught by the emptiness
\* check, gets the validation message and creates no turn, while
\* punctuation-only input passes the check and reaches the answer step
\* with an empty normalized question.
C10_RawQuestionNonEmpty ==
    /\ AnswerStepRan => str_strip(last.input) # <<>>
    /\ (last.op \in {"line", "submit"} /\ str_strip(last.input) = <<>>)
          => last.outcome = "validation" /\ last.calls = NoCalls
    /\ NoBlankTurn

C10_Witness ==
    /\ shell = "gui"
    /\ AnswerStepRan
    /\ last.input # <<>>
    /\ last.content = <<>>
    /\ Len(history) >= 1
    /\ history[1].processed = <<>>

====
